---- MODULE Spec2Model ----
(***************************************************************************)
(* Time-stepping drivers of femvf (src/femvf/forward.py): integrate,       *)
(* integrate_adaptive, adaptive_step, explicit_increment and               *)
(* implicit_increment, together with the state file they write, and the    *)
(* backward pass adjoint() (src/femvf/adjoint.py) that reads it; FSIMap    *)
(* (src/femvf/dynamicalmodels/coupled.py) and the node selection of the    *)
(* Bernoulli fluid (src/femvf/fluids.py), each under its own               *)
(* specification.                                                          *)
(*                                                                         *)
(* The solid state (u, v, a) is reduced to one degree of freedom and held  *)
(* in integers.  All times are even integers, so that with the Newmark     *)
(* parameters beta = 1/4, gamma = 1/2 the quantities beta*dt^2 = (dt/2)^2  *)
(* and gamma*dt = dt/2 are integers as well.                               *)
(***************************************************************************)
EXTENDS Integers, Sequences, FiniteSets, TLC

VARIABLES
    pc,                 \* position of the running driver
    error,              \* "" or the exception that ended the run
    driver,             \* "" | "integrate_adaptive" | "integrate"
    coupling,           \* integrate: the `coupling` argument
    t0,                 \* timing_props['t0']
    tmeas,              \* timing_props['tmeas'] / the `times` argument
    dt_max,             \* timing_props['dt_max']
    idx_meas,           \* integrate: the `idx_meas` argument
    adaptive_step_prm,  \* [abs_tol, abs_tol_bounds]
    fluid_props,        \* [y_midline]
    h5,                 \* the state file: [init, time, uva, qp, meas]
    uva0,               \* (u0, v0, a0): the state the next step starts from
    qp0,                \* (q0, p0)
    t_current,          \* integrate_adaptive
    n_state,            \* integrate_adaptive
    k,                  \* integrate_adaptive: index of t_target in tmeas (from 1)
    dt_proposal,        \* integrate_adaptive
    n,                  \* integrate: loop index
    as,                 \* locals of the running adaptive_step call
    inc,                \* locals and step_info of the running increment
    adj,                \* locals of the adjoint() call on the state file
    fsi,                \* an FSIMap object and the vectors it was applied to
    fl                  \* calls of fluid_pressure and flow_sensitivity

vars == <<pc, error, driver, coupling, t0, tmeas, dt_max, idx_meas,
          adaptive_step_prm, fluid_props, h5, uva0, qp0, t_current, n_state,
          k, dt_proposal, n, as, inc, adj, fsi, fl>>

----------------------------------------------------------------------------
(* Bounds of the model *)

\* target times are drawn from {0, 2, ..., 2*MaxT}
MaxT == 3
\* longest target-time sequence
MaxLen == 3
\* most fixed-point iterations of one implicit_increment call that are followed
MaxNit == 2
\* degrees of freedom of the solid vector of an FSIMap
NDof == 3
\* most pairs of degrees of freedom of an FSIMap
MaxPairs == 2
\* most calls of the maps of one FSIMap that are followed
MaxOps == 2
\* most nodes of a fluid surface
MaxNodes == 3

(* Program constants *)

\* isclose(..., rel_tol=1e-7, ...): 1/rel_tol
RelTolInv == 10000000
\* fluids.py: SEPARATION_FACTOR = 1.0000000000000000001, which is the
\* float 1.0
SEPARATION_FACTOR == 1
\* forms.py: beta = Constant(1/4): 1/beta
BetaInv == 4
\* forms.py: gamma = Constant(1/2): 1/gamma
GammaInv == 2

\* np.inf: above every residual norm of the model
Inf == 1000000
\* DEFAULT_NEWTON_SOLVER_PRM and FIXEDPOINT_SOLVER_PRM: the absolute tolerance
\* 1e-8 in units of 1e-8, the relative tolerances 1e-10 and 1e-11 in units
\* of 1e-11
DEFAULT_NEWTON_SOLVER_PRM ==
    [absolute_tolerance |-> 1, relative_tolerance |-> 10]
FIXEDPOINT_SOLVER_PRM ==
    [absolute_tolerance |-> 1, relative_tolerance |-> 1]

None == <<>>

Abs(x) == IF x < 0 THEN -x ELSE x
Min(S) == CHOOSE x \in S : \A y \in S : x <= y
Max(S) == CHOOSE x \in S : \A y \in S : y <= x

----------------------------------------------------------------------------
(* Inputs *)

TimeSet == {2 * i : i \in 0..MaxT}
DtMaxSet == {2, 4}
SeqsUpTo(S, m) == UNION {[1..l -> S] : l \in 0..m}
TargetSeqs == SeqsUpTo(TimeSet, MaxLen)
\* initial solid states (u, v, a): one in motion, one at rest
IniStates == {<<0, 1, 0>>, <<0, 0, 0>>}
\* accelerations a1 the solid solve can end at
AccSet == {-1, 0, 1}
\* the adaptive_step_prm argument: None, or a dict; abs_tol is held in the
\* units of newmark_error_estimate, 1/(6*BetaInv), abs_tol_bounds in tenths
AdaptivePrmSet ==
    {None, <<[abs_tol |-> <<8>>, abs_tol_bounds |-> <<8, 12>>]>>}
\* fluid properties: a driven flow (p_sub > 0) and no flow at all
FluidPropsSet == {[y_midline |-> 2, p_sub |-> 1], [y_midline |-> 2, p_sub |-> 0]}
\* the problems the drivers are called with: the solid in motion in a driven
\* flow, and the solid at rest without flow
ProblemSet ==
    {pr \in IniStates \X FluidPropsSet : (pr[1] = <<0, 0, 0>>) <=> (pr[2].p_sub = 0)}
IdxMeasSet == {{}, 0..MaxLen}
CouplingSet == {"implicit", "explicit", "monolithic"}
\* the strictly increasing sequences of MaxLen + 1 times
LongTimes ==
    {s \in [1..(MaxLen + 1) -> TimeSet] :
        \A i \in 1..MaxLen : s[i] < s[i + 1]}
\* the (times, idx_meas, coupling) integrate is called with: every sequence
\* of times under explicit coupling, and the long ones without measurement
\* indices; under implicit coupling the strictly increasing sequences of
\* two and more times, without measurement indices
IntegrateInputs ==
    {in \in TargetSeqs \X IdxMeasSet \X CouplingSet :
        in[3] = "implicit" =>
            /\ in[2] = {}
            /\ Len(in[1]) >= 2
            /\ \A i \in 1..(Len(in[1]) - 1) : in[1][i] < in[1][i + 1]}
    \cup (LongTimes \X {{}} \X {"explicit"})

----------------------------------------------------------------------------
(* Newmark state updater (femvf/newmark.py, imported by forms.py and by     *)
(* solids; the formulas are the spec's section 4.1)                         *)

\* a1 = (u1 - u0 - dt*v0 - dt^2*(1/2 - beta)*a0) / (beta*dt^2)
newmark_a(u1, u0, v0, a0, dt) ==
    (2 * BetaInv * (u1 - u0 - dt * v0) - dt * dt * (BetaInv - 2) * a0)
        \div (2 * dt * dt)

\* v1 = v0 + dt*((1 - gamma)*a0 + gamma*a1)
newmark_v(u1, u0, v0, a0, dt) ==
    v0 + (dt * ((GammaInv - 1) * a0 + newmark_a(u1, u0, v0, a0, dt)))
            \div GammaInv

\* 0.5*dt**2*(2*beta - 1/3)*(a1 - a0), in units of 1/(6*BetaInv)
newmark_error_estimate(a1, a0, dt) ==
    dt * dt * (6 - BetaInv) * (a1 - a0)

\* err.norm('l2') of a vector with one entry
norm_l2(x) == Abs(x)

----------------------------------------------------------------------------
(* Fluid model and solid solve *)

\* model.get_pressure(): the fluid state (q, p) is a function of the areas
\* 2*(y_midline - u) and their rates -2*v alone; it is held as that pair.
get_pressure(uva, fp) == <<2 * (fp.y_midline - uva[1]), -2 * uva[2]>>

\* no flow, and the solid at rest in its unloaded configuration: zero
\* pressure, zero velocity and acceleration, zero residual
AtRest(uva, fp) == uva = <<0, 0, 0>> /\ fp.p_sub = 0

\* dfn.solve(solid.f1 == 0, solid.u1, ...): the displacements the Newton
\* solve can converge to; the empty set when it cannot converge (dt = 0
\* makes the Newmark coefficients of the residual infinite).  At rest the
\* initial guess u1 = u0 has residual zero and is returned as it is.
newton_solve(uva, dt, fp) ==
    IF dt = 0 THEN {}
    ELSE IF AtRest(uva, fp) THEN {uva[1]}
    ELSE {uva[1] + dt * uva[2]
            + (dt * dt * ((BetaInv - 2) * uva[3] + 2 * a1)) \div (2 * BetaInv)
          : a1 \in AccSet}

\* the solve raises when the Newton iteration does not converge; an
\* iteration that starts at residual zero has converged before its first step
newton_raises(uva, dt, fp) ==
    IF AtRest(uva, fp) /\ dt # 0 THEN {} ELSE {"RuntimeError"}

\* the locals of an increment and the step_info it returns.  `load` is the
\* fluid state (q, p) last handed to the solid residual before a solid solve
\* (set_iter_params(..., qp1=...)), `phases` the solid solves and fluid
\* updates made so far, in order.  Residual norms are held in units of 1e-8,
\* the norm abs_err0 of the first residual in units of 1e3, so that
\* abs_err/abs_err0 is rel_err in units of 1e-11.
NoInc == [kind |-> "", raised |-> "", dt |-> 0, load |-> None,
          uva1 |-> None, qp1 |-> None, phases |-> <<>>, nit |-> 0,
          abs_err0 |-> 0, abs_err |-> 0, rel_err |-> <<0, 1>>,
          abs_tol |-> 0, rel_tol |-> 0]

Raised(e) == [NoInc EXCEPT !.raised = e]
Returned(u1v1a1, q1p1, dt, load) ==
    [NoInc EXCEPT !.kind = "explicit", !.dt = dt, !.load = load,
                  !.uva1 = u1v1a1, !.qp1 = q1p1,
                  !.phases = <<"SOLID_SOLVE", "FLUID_UPDATE">>]

\* explicit_increment with v1 not updated (a slip in the Newmark update)
explicit_increment_stale_v(uva, qp, dt, fp) ==
    {Raised(e) : e \in newton_raises(uva, dt, fp)} \cup
    {Returned(<<u1, uva[2], newmark_a(u1, uva[1], uva[2], uva[3], dt)>>,
              get_pressure(<<u1, uva[2], 0>>, fp), dt, qp)
     : u1 \in newton_solve(uva, dt, fp)}

\* explicit_increment returning the fluid state it was given
explicit_increment_stale_qp(uva, qp, dt, fp) ==
    {Raised(e) : e \in newton_raises(uva, dt, fp)} \cup
    {LET v1 == newmark_v(u1, uva[1], uva[2], uva[3], dt)
         a1 == newmark_a(u1, uva[1], uva[2], uva[3], dt)
     IN  Returned(<<u1, v1, a1>>, qp, dt, qp)
     : u1 \in newton_solve(uva, dt, fp)}

\* the outcomes of explicit_increment(model, uva0, qp0, dt): the residual is
\* set up once, with qp1 = qp0, and solved once; the fluid state is then
\* computed at (u1, v1, a1)
explicit_increment(uva, qp, dt, fp) ==
    {Raised(e) : e \in newton_raises(uva, dt, fp)} \cup
    {LET v1 == newmark_v(u1, uva[1], uva[2], uva[3], dt)
         a1 == newmark_a(u1, uva[1], uva[2], uva[3], dt)
     IN  Returned(<<u1, v1, a1>>, get_pressure(<<u1, v1, a1>>, fp), dt, qp)
     : u1 \in newton_solve(uva, dt, fp)}

----------------------------------------------------------------------------
(* implicit_increment *)

\* num/den > r for a quotient held as <<num, den>>, den > 0
QuotGt(q, r) == q[1] > r * q[2]

\* res0.norm('l2'): the norm of the residual at the initial guess u1 = u0
residual0_norm(uva, fp) == IF AtRest(uva, fp) THEN {0} ELSE {1}
\* res.norm('l2'): the norms the residual can have after a solid solve, with
\* the pressure of the new fluid state
residual_norm(uva, fp) == IF AtRest(uva, fp) THEN {0} ELSE {1, 5, 20}

\* if newton_solver_prm is None: newton_solver_prm = DEFAULT_NEWTON_SOLVER_PRM
newton_solver_prm == DEFAULT_NEWTON_SOLVER_PRM

\* implicit_increment entered with abs_err and rel_err at zero
implicit_enter_from_zero(uva, qp, dt, res0, prm) ==
    [NoInc EXCEPT !.kind = "implicit", !.dt = dt, !.qp1 = qp,
                  !.abs_err0 = res0, !.abs_err = 0, !.rel_err = <<0, 1>>,
                  !.abs_tol = prm.absolute_tolerance,
                  !.rel_tol = prm.relative_tolerance]

\* implicit_increment up to the first test of the while loop: q1, p1 = qp0;
\* nit = 0; abs_tol, rel_tol = newton_solver_prm[...];
\* abs_err0, abs_err, rel_err = res0.norm('l2'), np.inf, np.inf
implicit_enter(uva, qp, dt, res0, prm) ==
    [NoInc EXCEPT !.kind = "implicit", !.dt = dt, !.qp1 = qp,
                  !.abs_err0 = res0, !.abs_err = Inf, !.rel_err = <<Inf, 1>>,
                  !.abs_tol = prm.absolute_tolerance,
                  !.rel_tol = prm.relative_tolerance]

\* the while test with `or` in the place of `and`
fixed_point_continues_either(l) ==
    l.abs_err > l.abs_tol \/ QuotGt(l.rel_err, l.rel_tol)

\* while abs_err > abs_tol and rel_err > rel_tol
fixed_point_continues(l) ==
    l.abs_err > l.abs_tol /\ QuotGt(l.rel_err, l.rel_tol)

\* the first half of the loop body: set_iter_params(..., qp1=(q1, p1)), the
\* solid solve and the Newmark update of v1 and a1
implicit_solid_solve(l, uva, fp) ==
    {[l EXCEPT !.load = l.qp1, !.raised = e] : e \in newton_raises(uva, l.dt, fp)}
    \cup
    {[l EXCEPT !.load = l.qp1,
               !.uva1 = <<u1, newmark_v(u1, uva[1], uva[2], uva[3], l.dt),
                          newmark_a(u1, uva[1], uva[2], uva[3], l.dt)>>,
               !.phases = Append(@, "SOLID_SOLVE")]
     : u1 \in newton_solve(uva, l.dt, fp)}

\* the second half of the loop body with the pressure guess carried over
implicit_fluid_update_carried(l, uva, fp) ==
    {LET m == [l EXCEPT !.abs_err = res,
                        !.phases = Append(@, "FLUID_UPDATE")]
     IN  IF l.abs_err0 = 0
         THEN [m EXCEPT !.raised = "ZeroDivisionError"]
         ELSE [m EXCEPT !.rel_err = <<res, l.abs_err0>>, !.nit = @ + 1]
     : res \in residual_norm(uva, fp)}

\* the second half of the loop body: get_pressure at (u1, v1, a1), the
\* residual with the new pressure, abs_err, rel_err = abs_err/abs_err0 (a
\* division of floats: ZeroDivisionError for abs_err0 = 0.0) and nit += 1
implicit_fluid_update(l, uva, fp) ==
    {LET m == [l EXCEPT !.qp1 = get_pressure(l.uva1, fp),
                        !.abs_err = res,
                        !.phases = Append(@, "FLUID_UPDATE")]
     IN  IF l.abs_err0 = 0
         THEN [m EXCEPT !.raised = "ZeroDivisionError"]
         ELSE [m EXCEPT !.rel_err = <<res, l.abs_err0>>, !.nit = @ + 1]
     : res \in residual_norm(uva, fp)}

----------------------------------------------------------------------------
(* State file (femvf/statefile.py, read back through statefileutils.py)     *)

EmptyFile == [init |-> FALSE, time |-> <<>>, uva |-> <<>>, qp |-> <<>>,
              meas |-> <<>>]

init_layout(f, uva, qp) ==
    [f EXCEPT !.init = TRUE, !.uva = <<uva>>, !.qp = <<qp>>]
append_time(f, t) == [f EXCEPT !.time = Append(@, t)]
append_state(f, uva) == [f EXCEPT !.uva = Append(@, uva)]
append_fluid_state(f, qp) == [f EXCEPT !.qp = Append(@, qp)]
append_meas_index(f, i) == [f EXCEPT !.meas = Append(@, i)]

get_num_states == Len(h5.uva)
get_times == h5.time
get_meas_indices == h5.meas
\* get_state(n) and get_time(n) with the 0-based index of the code
get_state(i) == h5.uva[i + 1]
get_time(i) == h5.time[i + 1]

----------------------------------------------------------------------------
(* integrate_adaptive *)

\* math.isclose(a, b, rel_tol=1e-7, abs_tol=10*2**-52) on integers: the
\* absolute tolerance is below 1
isclose(a, b) ==
    \/ Abs(a - b) * RelTolInv <= Max({Abs(a), Abs(b)})
    \/ Abs(a - b) = 0

\* a raise that is caught and passed over: the driver goes on
raise_and_continue(e) ==
    /\ pc' = pc
    /\ error' = e

\* a raise: the driver stops, the `with` block closes the file as it is
Raise(e) ==
    /\ pc' = "error"
    /\ error' = e

\* the target step without the distance to the target time
dt_target_no_remainder(proposal, dtmax, target, t) ==
    Min({proposal, dtmax})

\* dt_target = min(dt_proposal, dt_max, t_target - t_current)
dt_target(proposal, dtmax, target, t) ==
    Min({proposal, dtmax, target - t})

\* adaptive_step with the refinement counter started at 0
adaptive_step_enter_from_zero(dtmax) ==
    [dt_max |-> dtmax, dt |-> dtmax, nrefine |-> 0, uva1 |-> None,
     qp1 |-> None, err_norm |-> 0]

\* adaptive_step: uva1 = None; dt = dt_max; nrefine = -1; refine = True
adaptive_step_enter(dtmax) ==
    [dt_max |-> dtmax, dt |-> dtmax, nrefine |-> -1, uva1 |-> None,
     qp1 |-> None, err_norm |-> 0]

NoCall == [dt_max |-> 0, dt |-> 0, nrefine |-> -1, uva1 |-> None,
           qp1 |-> None, err_norm |-> 0]

\* the writes of an accepted sub-step with the time written as it was
\* before t_current += dt_actual
ia_write_outputs_stale_time(f, t, uva1, qp1) ==
    append_fluid_state(
        append_state(append_time(f, f.time[Len(f.time)]), uva1), qp1)

\* the writes of an accepted sub-step without append_state
ia_write_outputs_no_state(f, t, uva1, qp1) ==
    append_fluid_state(append_time(f, t), qp1)

\* f.append_time(t_current); f.append_state(uva1); f.append_fluid_state(qp1)
ia_write_outputs(f, t, uva1, qp1) ==
    append_fluid_state(append_state(append_time(f, t), uva1), qp1)

\* integrate_adaptive(...) up to the first test of the while loop
integrate_adaptive(in_uva, in_fp, in_t0, in_tmeas, in_dt_max, in_prm) ==
    /\ pc = "idle"
    /\ driver' = "integrate_adaptive"
    /\ adaptive_step_prm' =
          IF in_prm = None
          THEN [abs_tol |-> None, abs_tol_bounds |-> <<0, 0>>]
          ELSE in_prm[1]
    /\ t0' = in_t0
    /\ tmeas' = in_tmeas
    /\ dt_max' = in_dt_max
    /\ fluid_props' = in_fp
    /\ uva0' = in_uva
    /\ qp0' = get_pressure(in_uva, in_fp)
    /\ IF Len(in_tmeas) = 0
       THEN \* tmeas[-1] of an empty array
            Raise("IndexError") /\ UNCHANGED <<h5, t_current, k, dt_proposal>>
       ELSE IF in_tmeas[Len(in_tmeas)] < in_tmeas[1]
       THEN Raise("ValueError: final time") /\ UNCHANGED <<h5, t_current, k, dt_proposal>>
       ELSE IF Len(in_tmeas) <= 1
       THEN Raise("ValueError: atleast 2") /\ UNCHANGED <<h5, t_current, k, dt_proposal>>
       ELSE /\ h5' = append_time(init_layout(h5, in_uva, qp0'), in_t0)
            /\ t_current' = in_t0
            /\ k' = 1
            /\ dt_proposal' = in_dt_max
            /\ pc' = "ia_while"
            /\ UNCHANGED error
    /\ UNCHANGED <<coupling, idx_meas, n_state, n, as, inc>>
    /\ UNCHANGED <<adj, fsi, fl>>

\* the while test fails: f.append_meas_index(n_state), then the next target
\* (dt_proposal = dt_max) or the end of the run
ia_target_reached ==
    /\ pc = "ia_while"
    /\ isclose(t_current, tmeas[k])
    /\ h5' = append_meas_index(h5, n_state)
    /\ IF k = Len(tmeas)
       THEN pc' = "done" /\ UNCHANGED <<k, dt_proposal>>
       ELSE pc' = "ia_while" /\ k' = k + 1 /\ dt_proposal' = dt_max
    /\ UNCHANGED <<error, driver, coupling, t0, tmeas, dt_max, idx_meas,
                   adaptive_step_prm, fluid_props, uva0, qp0, t_current,
                   n_state, n, as, inc>>
    /\ UNCHANGED <<adj, fsi, fl>>

\* the while test holds: the assert, dt_target and the call of adaptive_step
ia_step_begin ==
    /\ pc = "ia_while"
    /\ ~isclose(t_current, tmeas[k])
    /\ IF ~(t_current < tmeas[k])
       THEN Raise("AssertionError") /\ UNCHANGED as
       ELSE /\ as' = adaptive_step_enter(
                        dt_target(dt_proposal, dt_max, tmeas[k], t_current))
            /\ pc' = "as_trial"
            /\ UNCHANGED error
    /\ UNCHANGED <<driver, coupling, t0, tmeas, dt_max, idx_meas,
                   adaptive_step_prm, fluid_props, h5, uva0, qp0, t_current,
                   n_state, k, dt_proposal, n, inc>>
    /\ UNCHANGED <<adj, fsi, fl>>

\* a trial that writes its end state over the start state (u0, v0, a0)
as_trial_in_place ==
    /\ pc = "as_trial"
    /\ \E out \in explicit_increment(uva0, qp0, as.dt, fluid_props) :
        /\ inc' = out
        /\ IF out.raised # ""
          THEN Raise(out.raised) /\ UNCHANGED <<as, uva0, qp0>>
          ELSE /\ as' = [as EXCEPT
                          !.nrefine = @ + 1,
                          !.uva1 = out.uva1,
                          !.qp1 = out.qp1,
                          !.err_norm = norm_l2(newmark_error_estimate(
                                          out.uva1[3], uva0[3], as.dt))]
               /\ uva0' = out.uva1
               /\ qp0' = out.qp1
               /\ pc' = "as_control"
               /\ UNCHANGED error
    /\ UNCHANGED <<driver, coupling, t0, tmeas, dt_max, idx_meas,
                   adaptive_step_prm, fluid_props, h5, t_current,
                   n_state, k, dt_proposal, n>>
    /\ UNCHANGED <<adj, fsi, fl>>

\* adaptive_step, one pass of `while refine` up to the step control: the
\* trial increment and its error estimate
as_trial ==
    /\ pc = "as_trial"
    /\ \E out \in explicit_increment(uva0, qp0, as.dt, fluid_props) :
        /\ inc' = out
        /\ IF out.raised # ""
          THEN Raise(out.raised) /\ UNCHANGED as
          ELSE /\ as' = [as EXCEPT
                          !.nrefine = @ + 1,
                          !.uva1 = out.uva1,
                          !.qp1 = out.qp1,
                          !.err_norm = norm_l2(newmark_error_estimate(
                                          out.uva1[3], uva0[3], as.dt))]
               /\ pc' = "as_control"
               /\ UNCHANGED error
    /\ UNCHANGED <<driver, coupling, t0, tmeas, dt_max, idx_meas,
                   adaptive_step_prm, fluid_props, h5, uva0, qp0, t_current,
                   n_state, k, dt_proposal, n>>
    /\ UNCHANGED <<adj, fsi, fl>>

\* adaptive_step, the step control.  With abs_tol set the first statement
\* calls refine_initial_collision, a name forward.py neither defines nor
\* imports: NameError.  With abs_tol None: refine = False and the return.
as_control ==
    /\ pc = "as_control"
    /\ IF adaptive_step_prm.abs_tol # None
       THEN Raise("NameError")
       ELSE pc' = "ia_accept" /\ UNCHANGED error
    /\ UNCHANGED <<driver, coupling, t0, tmeas, dt_max, idx_meas,
                   adaptive_step_prm, fluid_props, h5, uva0, qp0, t_current,
                   n_state, k, dt_proposal, n, as, inc>>
    /\ UNCHANGED <<adj, fsi, fl>>

\* back in integrate_adaptive: the bookkeeping and writes of the sub-step
ia_accept ==
    /\ pc = "ia_accept"
    /\ n_state' = n_state + 1
    /\ t_current' = t_current + as.dt
    /\ dt_proposal' = as.dt
    /\ h5' = ia_write_outputs(h5, t_current', as.uva1, as.qp1)
    /\ uva0' = as.uva1
    /\ qp0' = as.qp1
    /\ inc' = NoInc
    /\ pc' = "ia_while"
    /\ UNCHANGED <<error, driver, coupling, t0, tmeas, dt_max, idx_meas,
                   adaptive_step_prm, fluid_props, k, n, as>>
    /\ UNCHANGED <<adj, fsi, fl>>

----------------------------------------------------------------------------
(* integrate *)

\* the writes of a step: f.append_state(uva1); f.append_fluid_state(qp1);
\* f.append_time(times[n+1]); if n+1 in idx_meas: f.append_meas_index(n+1)
int_write_outputs(f, uva1, qp1, t, i, meas) ==
    LET g == append_time(append_fluid_state(append_state(f, uva1), qp1), t)
    IN  IF i \in meas THEN append_meas_index(g, i) ELSE g

\* integrate(...) up to the first pass of the for loop
integrate(in_uva, in_fp, in_times, in_idx_meas, in_coupling) ==
    /\ pc = "idle"
    /\ driver' = "integrate"
    /\ coupling' = in_coupling
    /\ tmeas' = in_times
    /\ idx_meas' = in_idx_meas
    /\ IF in_coupling \notin {"implicit", "explicit"}
       THEN /\ Raise("ValueError: coupling")
            /\ UNCHANGED <<fluid_props, uva0, qp0, h5, n>>
       ELSE /\ fluid_props' = in_fp
            /\ uva0' = in_uva
            /\ qp0' = get_pressure(in_uva, in_fp)
            /\ IF Len(in_times) = 0
               THEN \* times[-1] of an empty array
                    Raise("IndexError") /\ UNCHANGED <<h5, n>>
               ELSE IF in_times[Len(in_times)] < in_times[1]
               THEN \* the message of the ValueError reads `tmeas`, a name
                    \* integrate does not have
                    Raise("NameError") /\ UNCHANGED <<h5, n>>
               ELSE IF Len(in_times) <= 1
               THEN Raise("ValueError: atleast 2") /\ UNCHANGED <<h5, n>>
               ELSE /\ h5' = LET f == append_time(
                                        init_layout(h5, in_uva, qp0'),
                                        in_times[1])
                             IN  IF 0 \in in_idx_meas
                                 THEN append_meas_index(f, 0) ELSE f
                    /\ n' = 0
                    /\ pc' = "int_loop"
                    /\ UNCHANGED error
    /\ UNCHANGED <<t0, dt_max, adaptive_step_prm, t_current, n_state, k,
                   dt_proposal, as, inc>>
    /\ UNCHANGED <<adj, fsi, fl>>

\* one pass of `for n in range(times.size-1)` up to the return of
\* explicit_increment, or up to the first while test of implicit_increment
int_step ==
    /\ pc = "int_loop"
    /\ n < Len(tmeas) - 1
    /\ LET dt == tmeas[n + 2] - tmeas[n + 1]
       IN  IF coupling = "implicit"
           THEN \E res0 \in residual0_norm(uva0, fluid_props) :
                   /\ inc' = implicit_enter(uva0, qp0, dt, res0,
                                            newton_solver_prm)
                   /\ pc' = "ii_while"
                   /\ UNCHANGED error
           ELSE \E out \in explicit_increment(uva0, qp0, dt, fluid_props) :
                   /\ inc' = out
                   /\ IF out.raised # ""
                      THEN Raise(out.raised)
                      ELSE pc' = "int_accept" /\ UNCHANGED error
    /\ UNCHANGED <<driver, coupling, t0, tmeas, dt_max, idx_meas,
                   adaptive_step_prm, fluid_props, h5, uva0, qp0, t_current,
                   n_state, k, dt_proposal, n, as>>
    /\ UNCHANGED <<adj, fsi, fl>>

\* implicit_increment: the while test holds; the solid solve of the pass
ii_solid_solve ==
    /\ pc = "ii_while"
    /\ fixed_point_continues(inc)
    /\ inc.nit < MaxNit
    /\ \E l \in implicit_solid_solve(inc, uva0, fluid_props) :
          /\ inc' = l
          /\ IF l.raised # ""
             THEN Raise(l.raised)
             ELSE pc' = "ii_fluid" /\ UNCHANGED error
    /\ UNCHANGED <<driver, coupling, t0, tmeas, dt_max, idx_meas,
                   adaptive_step_prm, fluid_props, h5, uva0, qp0, t_current,
                   n_state, k, dt_proposal, n, as>>
    /\ UNCHANGED <<adj, fsi, fl>>

\* implicit_increment: the fluid update and the error of the pass
ii_fluid_update ==
    /\ pc = "ii_fluid"
    /\ \E l \in implicit_fluid_update(inc, uva0, fluid_props) :
          /\ inc' = l
          /\ IF l.raised # ""
             THEN Raise(l.raised)
             ELSE pc' = "ii_while" /\ UNCHANGED error
    /\ UNCHANGED <<driver, coupling, t0, tmeas, dt_max, idx_meas,
                   adaptive_step_prm, fluid_props, h5, uva0, qp0, t_current,
                   n_state, k, dt_proposal, n, as>>
    /\ UNCHANGED <<adj, fsi, fl>>

\* implicit_increment: the while test fails; step_info and the return
ii_return ==
    /\ pc = "ii_while"
    /\ ~fixed_point_continues(inc)
    /\ pc' = "int_accept"
    /\ UNCHANGED <<error, driver, coupling, t0, tmeas, dt_max, idx_meas,
                   adaptive_step_prm, fluid_props, h5, uva0, qp0, t_current,
                   n_state, k, dt_proposal, n, as, inc>>
    /\ UNCHANGED <<adj, fsi, fl>>

\* back in integrate: the writes of the step and the next initial conditions
int_accept ==
    /\ pc = "int_accept"
    /\ h5' = int_write_outputs(h5, inc.uva1, inc.qp1, tmeas[n + 2], n + 1,
                               idx_meas)
    /\ uva0' = inc.uva1
    /\ qp0' = inc.qp1
    /\ n' = n + 1
    /\ inc' = NoInc
    /\ pc' = "int_loop"
    /\ UNCHANGED <<error, driver, coupling, t0, tmeas, dt_max, idx_meas,
                   adaptive_step_prm, fluid_props, t_current, n_state, k,
                   dt_proposal, as>>
    /\ UNCHANGED <<adj, fsi, fl>>

\* the for loop is exhausted: info is filled in and returned
int_finish ==
    /\ pc = "int_loop"
    /\ n >= Len(tmeas) - 1
    /\ pc' = "done"
    /\ UNCHANGED <<error, driver, coupling, t0, tmeas, dt_max, idx_meas,
                   adaptive_step_prm, fluid_props, h5, uva0, qp0, t_current,
                   n_state, k, dt_proposal, n, as, inc>>
    /\ UNCHANGED <<adj, fsi, fl>>

\* the variables of the forward drivers
fwd_vars == <<pc, error, h5, uva0, qp0, t_current, n_state, k, dt_proposal,
              n, as, inc>>

----------------------------------------------------------------------------
(* adjoint (femvf/adjoint.py), reading the state file through                *)
(* statefileutils.  The forms and their assembled matrices are not followed  *)
(* in value: a form is held as the indices of the stored states, the stored  *)
(* fluid properties and the time step its coefficients were set to, an       *)
(* adjoint state as the index it was solved for.                             *)

\* the rows under each label of the state file: u, v, a and time have
\* N_STATES rows, fluid_properties/* have N_STATES-1
rows_of(kind) ==
    IF kind = "fluid" THEN Max({get_num_states - 1, 0})
    ELSE IF kind = "time" THEN Len(get_times)
    ELSE get_num_states

\* dataset[n] and array[n] of h5py and numpy: a negative n counts from the
\* end, an n outside -rows..rows-1 raises
index_ok(rd) == -rows_of(rd.kind) <= rd.i /\ rd.i < rows_of(rd.kind)
Read(kind, i) == [kind |-> kind, i |-> i]

\* array[n] of numpy for an n within -size..size-1
array_at(a, i) == IF i < 0 THEN a[Len(a) + i + 1] ELSE a[i + 1]

\* the reads of rds that are issued: all of them, or those up to the first
\* one that raises
issued(rds) ==
    {rds[j] : j \in {j \in 1..Len(rds) : \A m \in 1..(j - 1) : index_ok(rds[m])}}
all_ok(rds) == \A j \in 1..Len(rds) : index_ok(rds[j])

\* the degrees of freedom of the solid and those frm.bc_base_adjoint fixes
\* (the essential boundary condition of the forward model)
Dofs == {1, 2}
FixedDofs == {1}

\* a coefficient p/q of the recurrence, held as the pair <<p, q>>
Rat(p, q) == <<p, q>>
RatEq(a, b) == a[1] * b[2] = b[1] * a[2]

\* an adjoint sub-state: the index n it belongs to, the terms it was
\* computed from, and the degrees of freedom on which it is known to be
\* zero.  dfn.Function(frm.vector_function_space) is the zero vector.
SubState(name, i, terms, zero) ==
    [name |-> name, n |-> i, terms |-> terms, zero |-> zero]
NoSub == SubState("", -1, <<>>, Dofs)
NoAdjState == [u |-> NoSub, v |-> NoSub, a |-> NoSub]
Ref(s) == <<s.name, s.n>>

NoAdjoint == [pc |-> "idle", error |-> "", num_states |-> 0, ii |-> 0,
              frm |-> None, held |-> <<>>, solved |-> <<>>,
              gradient |-> <<>>, reads |-> {},
              x2 |-> NoAdjState, passes |-> <<>>]

\* the reads of adjoint() before its loop, in the order of the code
adjoint_terminal_reads(N) ==
    <<Read("fluid", N - 2), Read("state", N - 1), Read("state", N - 2),
      Read("time", -1), Read("time", -2), Read("cost", N - 1)>>

\* the reads of one pass of the loop with the fluid properties one row late
adjoint_loop_reads_late(ii) ==
    <<Read("state", ii - 1), Read("state", ii), Read("state", ii + 1),
      Read("fluid", ii), Read("fluid", ii + 1),
      Read("time", ii), Read("time", ii - 1), Read("time", ii + 1),
      Read("cost", ii)>>

\* the reads of one pass of the loop, in the order of the code
adjoint_loop_reads(ii) ==
    <<Read("state", ii - 1), Read("state", ii), Read("state", ii + 1),
      Read("fluid", ii - 1), Read("fluid", ii),
      Read("time", ii), Read("time", ii - 1), Read("time", ii + 1),
      Read("cost", ii)>>

\* the forms with the fluid properties of the later state
set_forms_no_lag(i0, i1, ifp) == [x0 |-> i0, x1 |-> i1, fp |-> i1]

\* the coefficients of the forms: f(x0, x1) -> x1 over dt with fluid_props
set_forms(i0, i1, ifp) == [x0 |-> i0, x1 |-> i1, fp |-> ifp]

\* -1*df_dparam*adj_u: the residual the form stood for when df_dparam was
\* assembled, and the adjoint state it is applied to
gradient_term(frm, iadj) == [x0 |-> frm.x0, x1 |-> frm.x1, adj |-> iadj]

\* the loop run down to ii = 0
loop_continues_to_zero(ii) == ii >= 0

\* for ii in range(num_states-2, 0, -1)
loop_continues(ii) == ii > 0

\* dfn.assemble of a Jacobian form: which derivative, and the coefficients
\* (states, fluid properties, time step) the forms stood at; dp is the
\* pressure term added to it, none at assembly
NoSens == [x |-> -1, fp |-> -1]
assemble(wrt, frm, dt) == [wrt |-> wrt, frm |-> frm, dt |-> dt, dp |-> NoSens]
NoForm == [x0 |-> -1, x1 |-> -1, fp |-> -1]
Identity == assemble("I", NoForm, 0)

\* frm.set_flow_sensitivity(fluid_props)[0]: dpressure/du0 at the
\* displacement frm.u0 stands at, with the fluid properties handed over
set_flow_sensitivity(frm, ifp) == [x |-> frm.x0, fp |-> ifp]

\* df2_du1 left as assembled
pressure_correction_none(df2_du1, dpressure_du0) == df2_du1

\* df2_du1 + dpressure_du0.transposeMatMult(df2_dpressure)
pressure_correction(df2_du1, dpressure_du0) ==
    [df2_du1 EXCEPT !.dp = dpressure_du0]

\* c * mat * vec, one term of a sum
Term(c, mat, vec) == [c |-> c, mat |-> mat, vec |-> vec]

\* frm.bc_base_adjoint.apply(vector) left out
bc_apply_none(zero) == zero

\* frm.bc_base_adjoint.apply(vector): the fixed degrees of freedom are set
\* to zero
bc_apply(zero) == zero \cup FixedDofs

\* the degrees of freedom on which a sum with a matrix-vector product in it
\* is known to be zero: none
sum_zero == {}

\* dfn.solve(A, x, b) after bc.apply(A, b): the rows of the fixed degrees
\* of freedom are identity rows, so x is what b is there
solve_zero(b_zero) == b_zero \cap FixedDofs

\* adj_a1 with the coefficient of adj_a2 taken as 1/beta/dt2
newmark_adj_a1_as_v(df2_da1, dt2, adj_x2) ==
    <<Term(Rat(-1, 1), df2_da1, Ref(adj_x2.u)),
      Term(Rat(-dt2 * (BetaInv - 2 * GammaInv), 2 * GammaInv), Identity,
           Ref(adj_x2.v)),
      Term(Rat(-BetaInv, dt2), Identity, Ref(adj_x2.a))>>

\* -1 * (df2_da1*adj_u2 + dt2*(gamma/2/beta-1)*adj_v2 + (1/2/beta-1)*adj_a2)
newmark_adj_a1(df2_da1, dt2, adj_x2) ==
    <<Term(Rat(-1, 1), df2_da1, Ref(adj_x2.u)),
      Term(Rat(-dt2 * (BetaInv - 2 * GammaInv), 2 * GammaInv), Identity,
           Ref(adj_x2.v)),
      Term(Rat(-(BetaInv - 2), 2), Identity, Ref(adj_x2.a))>>

\* -1 * (df2_dv1*adj_u2 + (gamma/beta-1)*adj_v2 + 1/beta/dt2*adj_a2)
newmark_adj_v1(df2_dv1, dt2, adj_x2) ==
    <<Term(Rat(-1, 1), df2_dv1, Ref(adj_x2.u)),
      Term(Rat(-(BetaInv - GammaInv), GammaInv), Identity, Ref(adj_x2.v)),
      Term(Rat(-BetaInv, dt2), Identity, Ref(adj_x2.a))>>

\* dcost_du1 + gamma/beta/dt1*adj_v1 + 1/beta/dt1**2*adj_a1
\*   - (df2_du1*adj_u2 + gamma/beta/dt2*adj_v2 + 1/beta/dt2**2*adj_a2)
newmark_adj_u1_lhs(i1, df2_du1, dt1, dt2, adj_v1, adj_a1, adj_x2) ==
    <<Term(Rat(1, 1), Identity, <<"dcost_du", i1>>),
      Term(Rat(BetaInv, GammaInv * dt1), Identity, Ref(adj_v1)),
      Term(Rat(BetaInv, dt1 * dt1), Identity, Ref(adj_a1)),
      Term(Rat(-1, 1), df2_du1, Ref(adj_x2.u)),
      Term(Rat(-BetaInv, GammaInv * dt2), Identity, Ref(adj_x2.v)),
      Term(Rat(-BetaInv, dt2 * dt2), Identity, Ref(adj_x2.a))>>

\* decrement_adjoint(adj_x2, x0, x1, x2, dt1, dt2, solid_props,
\* fluid_props0, fluid_props1, dcost_du1), the states and fluid properties
\* given by their indices: the adjoint state (adj_u1, adj_v1, adj_a1), the
\* matrix of its solve, and the forms as they are left, from which
\* df1_dparam was assembled
decrement_adjoint(adj_x2, i0, i1, i2, dt1, dt2, ifp0, ifp1) ==
    LET f2 == set_forms(i1, i2, ifp1)
        dpressure_du0 == set_flow_sensitivity(f2, ifp1)
        df2_du1 == pressure_correction(assemble("u0", f2, dt2), dpressure_du0)
        df2_dv1 == assemble("v0", f2, dt2)
        df2_da1 == assemble("a0", f2, dt2)
        f1 == set_forms(i0, i1, ifp0)
        df1_du1 == assemble("u1", f1, dt1)
        adj_a1 == SubState("adj_a", i1, newmark_adj_a1(df2_da1, dt2, adj_x2),
                           bc_apply(sum_zero))
        adj_v1 == SubState("adj_v", i1, newmark_adj_v1(df2_dv1, dt2, adj_x2),
                           bc_apply(sum_zero))
        adj_u1_lhs == newmark_adj_u1_lhs(i1, df2_du1, dt1, dt2, adj_v1,
                                         adj_a1, adj_x2)
        adj_u1 == SubState("adj_u", i1, adj_u1_lhs,
                           solve_zero(bc_apply(sum_zero)))
    IN  [x1 |-> [u |-> adj_u1, v |-> adj_v1, a |-> adj_a1],
         lhs |-> df1_du1, frm |-> f1, dt |-> dt1, from |-> adj_x2]

\* adj_a2 is left as it was
assign_keep_a(adj_x2, adj_x1) == [adj_x1 EXCEPT !.a = adj_x2.a]

\* adj_a2.assign(adj_a1); adj_v2.assign(adj_v1); adj_u2.assign(adj_u1)
assign(adj_x2, adj_x1) == adj_x1

\* the solve of adjoint() before its loop: the forms at f^{N-1}, bc applied
\* to df2_du2 and dcost_du2, adj_u2 solved for, adj_v2 = adj_a2 = 0
terminal_adjoint(i1, i2, dt, ifp) ==
    LET frm == set_forms(i1, i2, ifp)
        df2_du2 == assemble("u1", frm, dt)
        adj_u2 == SubState("adj_u", i2,
                           <<Term(Rat(1, 1), Identity, <<"dcost_du", i2>>)>>,
                           solve_zero(bc_apply(sum_zero)))
    IN  [x1 |-> [u |-> adj_u2,
                 v |-> SubState("adj_v", i2, <<>>, Dofs),
                 a |-> SubState("adj_a", i2, <<>>, Dofs)],
         lhs |-> df2_du2, frm |-> frm, dt |-> dt, from |-> NoAdjState]

\* the state files adjoint() is called on: those written by integrate under
\* explicit coupling over strictly increasing times, by a run that returned
\* or by one that a raise has ended
adjoint_callable ==
    /\ pc \in {"done", "error"}
    /\ h5.init
    /\ driver = "integrate"
    /\ coupling = "explicit"
    /\ idx_meas = {}
    /\ \A i \in 1..(Len(tmeas) - 1) : tmeas[i] < tmeas[i + 1]

\* adjoint(h5file) up to its loop: gradient = zeros, the forms set to
\* f^{N-1}, the solve for adj_u2 and its term of the gradient
adjoint_begin ==
    /\ adjoint_callable
    /\ adj.pc = "idle"
    /\ LET N == get_num_states
           rds == adjoint_terminal_reads(N)
           times == get_times
           d == terminal_adjoint(N - 2, N - 1,
                                 array_at(times, -1) - array_at(times, -2),
                                 N - 2)
           frm == d.frm
       IN  adj' =
             IF ~all_ok(rds)
             THEN [adj EXCEPT !.pc = "error", !.error = "IndexError",
                              !.num_states = N, !.reads = issued(rds)]
             ELSE [adj EXCEPT !.pc = "loop", !.num_states = N,
                              !.reads = issued(rds),
                              !.frm = frm,
                              !.solved = <<N - 1>>,
                              !.held = <<N - 1>>,
                              !.gradient = <<gradient_term(frm, d.x1.u.n)>>,
                              !.x2 = d.x1,
                              !.passes = <<d>>,
                              !.ii = N - 2]
    /\ UNCHANGED fwd_vars
    /\ UNCHANGED <<driver, coupling, t0, tmeas, dt_max, idx_meas,
                   adaptive_step_prm, fluid_props, fsi, fl>>

\* one pass of the loop: decrement_adjoint solves for the adjoint state ii,
\* with the forms left at f(x0, x1), and its term is added to the gradient
adjoint_step ==
    /\ adj.pc = "loop"
    /\ loop_continues(adj.ii)
    /\ LET ii == adj.ii
           rds == adjoint_loop_reads(ii)
           times == get_times
           dt1 == array_at(times, ii) - array_at(times, ii - 1)
           dt2 == array_at(times, ii + 1) - array_at(times, ii)
           d == decrement_adjoint(adj.x2, ii - 1, ii, ii + 1, dt1, dt2,
                                  ii - 1, ii)
           frm == d.frm
       IN  adj' =
             IF ~all_ok(rds)
             THEN [adj EXCEPT !.pc = "error", !.error = "IndexError",
                              !.reads = @ \cup issued(rds)]
             ELSE [adj EXCEPT !.reads = @ \cup issued(rds),
                              !.frm = frm,
                              !.solved = Append(@, ii),
                              !.held = <<ii>>,
                              !.gradient =
                                  Append(@, gradient_term(frm, d.x1.u.n)),
                              !.x2 = assign(@, d.x1),
                              !.passes = Append(@, d),
                              !.ii = ii - 1]
    /\ UNCHANGED fwd_vars
    /\ UNCHANGED <<driver, coupling, t0, tmeas, dt_max, idx_meas,
                   adaptive_step_prm, fluid_props, fsi, fl>>

\* the loop is exhausted: return gradient
adjoint_return ==
    /\ adj.pc = "loop"
    /\ ~loop_continues(adj.ii)
    /\ adj' = [adj EXCEPT !.pc = "done"]
    /\ UNCHANGED fwd_vars
    /\ UNCHANGED <<driver, coupling, t0, tmeas, dt_max, idx_meas,
                   adaptive_step_prm, fluid_props, fsi, fl>>

----------------------------------------------------------------------------
(* FSIMap (femvf/dynamicalmodels/coupled.py): the map between the vectors   *)
(* of the fluid and of the solid over paired degrees of freedom.  A vector  *)
(* is a function on 0..n-1, a matrix of ones the set of its <<row, column>> *)
(* entries; indexing with an array is numpy's.                              *)

\* the arrays of distinct dofs below ndof, of 1 to MaxPairs entries
DofArrays(ndof) ==
    {s \in SeqsUpTo(0..(ndof - 1), MaxPairs) :
        /\ Len(s) >= 1
        /\ \A i, j \in 1..Len(s) : i # j => s[i] # s[j]}

\* the arguments of FSIMap(...): paired arrays of the same length, each dof
\* within its domain
FSIMapInputs ==
    {in \in [ndof_fluid : {NDof - 1, NDof}, ndof_solid : {NDof},
             fluid_dofs : DofArrays(NDof), solid_dofs : DofArrays(NDof)] :
        /\ Len(in.fluid_dofs) = Len(in.solid_dofs)
        /\ \A i \in 1..Len(in.fluid_dofs) : in.fluid_dofs[i] < in.ndof_fluid}

\* {k: v for k, v in zip(keys, vals)}: a later pair replaces an earlier one
zip_dict(keys, vals) ==
    LET m == Min({Len(keys), Len(vals)})
    IN  [key \in {keys[i] : i \in 1..m} |->
            vals[CHOOSE i \in 1..m :
                    /\ keys[i] = key
                    /\ \A j \in (i + 1)..m : keys[j] # key]]

\* for jj, ii in idx.items(): A.setValue(ii, jj, 1)
assem_jac(idx) == {<<idx[jj], jj>> : jj \in DOMAIN idx}

\* FSIMap.__init__
FSIMap_init(ndof_fluid, ndof_solid, fluid_dofs, solid_dofs) ==
    LET fluid_to_solid_idx == zip_dict(fluid_dofs, solid_dofs)
        solid_to_fluid_idx == zip_dict(solid_dofs, fluid_dofs)
    IN  [N_FLUID |-> ndof_fluid, N_SOLID |-> ndof_solid,
         dofs_fluid |-> fluid_dofs, dofs_solid |-> solid_dofs,
         jac_fluid_to_solid |-> assem_jac(fluid_to_solid_idx),
         jac_solid_to_fluid |-> assem_jac(solid_to_fluid_idx)]

\* vec[idx] for an index array: every index has to be within the vector
in_range(vec, idx) == \A j \in 1..Len(idx) : idx[j] \in DOMAIN vec
gather(vec, idx) == [j \in 1..Len(idx) |-> vec[idx[j]]]
\* vec[idx] = vals
scatter(vec, idx, vals) ==
    [i \in DOMAIN vec |->
        IF \E j \in 1..Len(idx) : idx[j] = i
        THEN vals[CHOOSE j \in 1..Len(idx) :
                     /\ idx[j] = i
                     /\ \A m \in (j + 1)..Len(idx) : idx[m] # i]
        ELSE vec[i]]

\* to[idx_to] = from[idx_from], or the IndexError of the index that is out
\* of range
index_assign(to, idx_to, from, idx_from) ==
    IF in_range(from, idx_from) /\ in_range(to, idx_to)
    THEN [raised |-> "", vec |-> scatter(to, idx_to, gather(from, idx_from))]
    ELSE [raised |-> "IndexError", vec |-> to]

\* solid_vec[self.dofs_solid] = fluid_vec[self.dofs_fluid]
map_fluid_to_solid(self, fluid_vec, solid_vec) ==
    index_assign(solid_vec, self.dofs_solid, fluid_vec, self.dofs_fluid)

\* fluid_vec[self.dofs_solid] = solid_vec[self.dofs_fluid]
map_solid_to_fluid(self, solid_vec, fluid_vec) ==
    index_assign(fluid_vec, self.dofs_solid, solid_vec, self.dofs_fluid)

\* the sum of x over the columns of the entries
RECURSIVE row_sum(_, _)
row_sum(entries, x) ==
    IF entries = {} THEN 0
    ELSE LET e == CHOOSE e \in entries : TRUE
         IN  x[e[2]] + row_sum(entries \ {e}, x)

\* A * x for a matrix of ones with nrows rows
mat_mult(A, nrows, x) ==
    [i \in 0..(nrows - 1) |-> row_sum({e \in A : e[1] = i}, x)]

NoFSIMap == [pc |-> "none", error |-> "", ops |-> <<>>]

\* FSIMap(ndof_fluid, ndof_solid, fluid_dofs, solid_dofs) and two vectors
\* whose entries all differ
fsimap_new ==
    /\ fsi.pc = "none"
    /\ \E in \in FSIMapInputs :
        fsi' = [pc |-> "ready", error |-> "", ops |-> <<>>,
                map |-> FSIMap_init(in.ndof_fluid, in.ndof_solid,
                                    in.fluid_dofs, in.solid_dofs),
                solid_vec |-> [i \in 0..(in.ndof_solid - 1) |-> 10 + i],
                fluid_vec |-> [i \in 0..(in.ndof_fluid - 1) |-> 20 + i]]
    /\ UNCHANGED <<fwd_vars, driver, coupling, t0, tmeas, dt_max, idx_meas,
                   adaptive_step_prm, fluid_props, adj, fl>>

\* one call of a map on the two vectors; ops keeps the vectors of before
fsimap_op(name, raised, solid1, fluid1) ==
    fsi' = [fsi EXCEPT
              !.pc = IF raised # "" THEN "error" ELSE "ready",
              !.error = raised,
              !.ops = Append(@, [name |-> name, solid |-> fsi.solid_vec,
                                 fluid |-> fsi.fluid_vec]),
              !.solid_vec = solid1,
              !.fluid_vec = fluid1]

fsimap_solid_to_fluid ==
    /\ fsi.pc = "ready"
    /\ Len(fsi.ops) < MaxOps
    /\ LET r == map_solid_to_fluid(fsi.map, fsi.solid_vec, fsi.fluid_vec)
       IN  fsimap_op("map_solid_to_fluid", r.raised, fsi.solid_vec, r.vec)
    /\ UNCHANGED <<fwd_vars, driver, coupling, t0, tmeas, dt_max, idx_meas,
                   adaptive_step_prm, fluid_props, adj, fl>>

fsimap_fluid_to_solid ==
    /\ fsi.pc = "ready"
    /\ Len(fsi.ops) < MaxOps
    /\ LET r == map_fluid_to_solid(fsi.map, fsi.fluid_vec, fsi.solid_vec)
       IN  fsimap_op("map_fluid_to_solid", r.raised, r.vec, fsi.fluid_vec)
    /\ UNCHANGED <<fwd_vars, driver, coupling, t0, tmeas, dt_max, idx_meas,
                   adaptive_step_prm, fluid_props, adj, fl>>

----------------------------------------------------------------------------
(* The 1D Bernoulli fluid (femvf/fluids.py): the node of minimum area and   *)
(* the separation node that fluid_pressure and flow_sensitivity take for a  *)
(* surface state.  The surface is held as the y displacements of its        *)
(* nodes, in the order of the flow; indices are those of the code, from 0.  *)

\* the surface states: 1 to MaxNodes nodes
SurfaceStates == {y \in SeqsUpTo(0..2, MaxNodes) : Len(y) >= 1}
\* the y_midline of the fluid properties of these calls
FlowProps == [y_midline |-> 3]

\* area = 2 * (y_midline - x[0][:, 1]), as a function on 0..size-1
area_of(y, fp) == [i \in 0..(Len(y) - 1) |-> 2 * (fp.y_midline - y[i + 1])]
size(a) == Cardinality(DOMAIN a)

\* np.argmin(a): the first index of the least entry
argmin(a) ==
    CHOOSE i \in DOMAIN a :
        /\ \A j \in DOMAIN a : a[i] <= a[j]
        /\ \A j \in DOMAIN a : j < i => a[j] > a[i]

\* a[::-1]
reversed(a) == [i \in DOMAIN a |-> a[size(a) - 1 - i]]

\* np.argmax(b) of a boolean array: the first index that holds, 0 when none
\* does
argmax(b) ==
    IF \E i \in DOMAIN b : b[i]
    THEN CHOOSE i \in DOMAIN b : b[i] /\ \A j \in DOMAIN b : j < i => ~b[j]
    ELSE 0

\* np.argmax(np.logical_and(area >= a_sep, np.arange(area.size) > idx_min)) - 1
separation_index(area, a_sep, idx_min) ==
    argmax([i \in DOMAIN area |-> area[i] >= a_sep /\ i > idx_min]) - 1

\* fluid_pressure(x, fluid_props): idx_min, a_sep and idx_sep of its info
fluid_pressure(y, fp) ==
    LET area == area_of(y, fp)
        idx_min == size(area) - 1 - argmin(reversed(area))
        a_sep == SEPARATION_FACTOR * area[idx_min]
    IN  [idx_min |-> idx_min, a_sep |-> a_sep,
         idx_sep |-> separation_index(area, a_sep, idx_min)]

\* flow_sensitivity(x, fluid_props): the idx_min, a_sep and idx_sep it
\* linearizes about
flow_sensitivity(y, fp) ==
    LET area == area_of(y, fp)
        idx_min == argmin(area)
        a_sep == SEPARATION_FACTOR * area[idx_min]
    IN  [idx_min |-> idx_min, a_sep |-> a_sep,
         idx_sep |-> separation_index(area, a_sep, idx_min)]

NoInfo == [idx_min |-> -1, a_sep |-> 0, idx_sep |-> -1]
NoFluidCall == [pc |-> "none", x |-> <<>>, pressure |-> NoInfo,
                sens |-> NoInfo, calls |-> {}]

\* a surface state is given
fluid_new_state ==
    /\ fl.pc = "none"
    /\ \E y \in SurfaceStates : fl' = [fl EXCEPT !.pc = "state", !.x = y]
    /\ UNCHANGED <<fwd_vars, driver, coupling, t0, tmeas, dt_max, idx_meas,
                   adaptive_step_prm, fluid_props, adj, fsi>>

call_fluid_pressure ==
    /\ fl.pc = "state"
    /\ "fluid_pressure" \notin fl.calls
    /\ fl' = [fl EXCEPT !.pressure = fluid_pressure(fl.x, FlowProps),
                        !.calls = @ \cup {"fluid_pressure"}]
    /\ UNCHANGED <<fwd_vars, driver, coupling, t0, tmeas, dt_max, idx_meas,
                   adaptive_step_prm, fluid_props, adj, fsi>>

call_flow_sensitivity ==
    /\ fl.pc = "state"
    /\ "flow_sensitivity" \notin fl.calls
    /\ fl' = [fl EXCEPT !.sens = flow_sensitivity(fl.x, FlowProps),
                        !.calls = @ \cup {"flow_sensitivity"}]
    /\ UNCHANGED <<fwd_vars, driver, coupling, t0, tmeas, dt_max, idx_meas,
                   adaptive_step_prm, fluid_props, adj, fsi>>

----------------------------------------------------------------------------
(* Specifications *)

Init ==
    /\ pc = "idle"
    /\ error = ""
    /\ driver = ""
    /\ coupling = ""
    /\ t0 = 0
    /\ tmeas = <<>>
    /\ dt_max = 0
    /\ idx_meas = {}
    /\ adaptive_step_prm = [abs_tol |-> None, abs_tol_bounds |-> <<0, 0>>]
    /\ fluid_props = [y_midline |-> 0, p_sub |-> 0]
    /\ h5 = EmptyFile
    /\ uva0 = <<0, 0, 0>>
    /\ qp0 = <<0, 0>>
    /\ t_current = 0
    /\ n_state = 0
    /\ k = 0
    /\ dt_proposal = 0
    /\ n = 0
    /\ as = NoCall
    /\ inc = NoInc
    /\ adj = NoAdjoint
    /\ fsi = NoFSIMap
    /\ fl = NoFluidCall

call_integrate_adaptive ==
    /\ pc = "idle"
    /\ \E pr \in ProblemSet, in_t0 \in {0, 2},
       in_tmeas \in TargetSeqs, in_dt_max \in DtMaxSet,
       in_prm \in AdaptivePrmSet :
        integrate_adaptive(pr[1], pr[2], in_t0, in_tmeas, in_dt_max, in_prm)

call_integrate ==
    /\ pc = "idle"
    /\ \E pr \in ProblemSet, in \in IntegrateInputs :
        integrate(pr[1], pr[2], in[1], in[2], in[3])

Next ==
    \/ call_integrate_adaptive
    \/ ia_target_reached
    \/ ia_step_begin
    \/ as_trial
    \/ as_control
    \/ ia_accept
    \/ call_integrate
    \/ int_step
    \/ ii_solid_solve
    \/ ii_fluid_update
    \/ ii_return
    \/ int_accept
    \/ int_finish
    \/ adjoint_begin
    \/ adjoint_step
    \/ adjoint_return

Spec == Init /\ [][Next]_vars

\* the steps of a call that is running
Run ==
    \/ ia_target_reached
    \/ ia_step_begin
    \/ as_trial
    \/ as_control
    \/ ia_accept
    \/ int_step
    \/ ii_solid_solve
    \/ ii_fluid_update
    \/ ii_return
    \/ int_accept
    \/ int_finish
    \/ adjoint_step
    \/ adjoint_return

\* the drivers are sequential programs: a call that can take a step takes it
FairSpec == Spec /\ WF_vars(Run)

\* FSIMap on its own: an object is made and its maps are called
FSINext ==
    \/ fsimap_new
    \/ fsimap_solid_to_fluid
    \/ fsimap_fluid_to_solid

FSISpec == Init /\ [][FSINext]_vars

\* the fluid functions on their own: both are called on a surface state
FluidNext ==
    \/ fluid_new_state
    \/ call_fluid_pressure
    \/ call_flow_sensitivity

FluidSpec == Init /\ [][FluidNext]_vars

----------------------------------------------------------------------------
(* Properties *)

StrictlyIncreasing(s) == \A i \in 1..(Len(s) - 1) : s[i] < s[i + 1]
Ceil(a, b) == (a + b - 1) \div b
AbsTolSet == adaptive_step_prm.abs_tol # None

\* the first state index whose stored time is within tolerance of t
FirstIndexAt(t) ==
    Min({i \in 0..(Len(get_times) - 1) : isclose(get_time(i), t)})

C3_RejectsNonIncreasing ==
    (/\ driver # ""
     /\ coupling # "monolithic"
     /\ Len(tmeas) >= 2
     /\ ~StrictlyIncreasing(tmeas)) =>
        /\ pc = "error"
        /\ error \in {"ValueError: final time", "ValueError: atleast 2"}
        /\ h5 = EmptyFile

\* C4 as stated: a driver called with fewer than 2 target times ends in the
\* ValueError 'There must be atleast 2 ...', with the state file untouched.
C4_RejectsShort ==
    (/\ driver # ""
     /\ coupling # "monolithic"
     /\ Len(tmeas) < 2) =>
        /\ pc = "error"
        /\ error = "ValueError: atleast 2"
        /\ h5 = EmptyFile

\* a target sequence the spec allows: strictly increasing, not before t0
ValidTargets ==
    /\ Len(tmeas) >= 2
    /\ StrictlyIncreasing(tmeas)
    /\ t0 <= tmeas[1]

C6_Pre ==
    /\ driver = "integrate_adaptive"
    /\ ~AbsTolSet
    /\ dt_max > 0
    /\ Len(tmeas) >= 2
    /\ StrictlyIncreasing(tmeas)
    /\ tmeas[1] = t0

ErrInBand ==
    /\ 10 * as.err_norm >= adaptive_step_prm.abs_tol_bounds[1]
                                * adaptive_step_prm.abs_tol[1]
    /\ 10 * as.err_norm <= adaptive_step_prm.abs_tol_bounds[2]
                                * adaptive_step_prm.abs_tol[1]
ErrAboveBand ==
    10 * as.err_norm > adaptive_step_prm.abs_tol_bounds[2]
                            * adaptive_step_prm.abs_tol[1]
\* the gap y_midline - u changes sign between the start and the trial end
MidlineCrossed ==
    (fluid_props.y_midline - uva0[1]) * (fluid_props.y_midline - as.uva1[1]) < 0

\* C7 as stated: with abs_tol set, bounds (0.8, 1.2) and no midline
\* crossing, a trial with the error estimate inside the band is accepted
\* with its dt and no further trial, and a trial above the band is followed
\* by a retry with a strictly smaller dt.
C7_AcceptOrShrink ==
    [][(/\ pc = "as_control"
        /\ AbsTolSet
        /\ adaptive_step_prm.abs_tol_bounds = <<8, 12>>
        /\ ~MidlineCrossed) =>
            /\ ErrInBand => (pc' = "ia_accept" /\ as'.dt = as.dt)
            /\ ErrAboveBand =>
                  (pc' = "as_trial" /\ as'.dt < as.dt /\ as'.dt > 0)]_vars

\* C8 as stated: a trial that crosses the midline and has its error
\* estimate outside the band is followed by a trial with dt/2.
C8_CollisionPriority ==
    [][(/\ pc = "as_control"
        /\ AbsTolSet
        /\ MidlineCrossed
        /\ ~ErrInBand) =>
            (pc' = "as_trial" /\ 2 * as'.dt = as.dt)]_vars

\* C9: with abs_tol None adaptive_step returns after one trial
\* (nrefine = 0) with dt equal to the dt_max it was given, and the state it
\* returns is an outcome of explicit_increment over that dt_max.
C9_SingleIncrement ==
    (pc = "ia_accept" /\ ~AbsTolSet) =>
        /\ as.nrefine = 0
        /\ as.dt = as.dt_max
        /\ \E out \in explicit_increment(uva0, qp0, as.dt_max, fluid_props) :
              out.raised = "" /\ out.uva1 = as.uva1 /\ out.qp1 = as.qp1

C9_Witness ==
    /\ pc = "ia_accept"
    /\ ~AbsTolSet
    /\ as.dt_max < dt_max
    /\ as.nrefine = 0

\* the Newmark-beta relations between (u0, v0, a0), (u1, v1, a1) and dt,
\* cleared of fractions:
\*   beta*dt^2*a1 = u1 - u0 - dt*v0 - dt^2*(1/2 - beta)*a0
\*   v1 - v0 = dt*((1 - gamma)*a0 + gamma*a1)
NewmarkRelations(s0, s1, dt) ==
    /\ 2 * dt * dt * s1[3] =
          2 * BetaInv * (s1[1] - s0[1] - dt * s0[2])
              - dt * dt * (BetaInv - 2) * s0[3]
    /\ GammaInv * (s1[2] - s0[2]) = dt * ((GammaInv - 1) * s0[3] + s1[3])

\* C10: every stored state i+1 satisfies the Newmark-beta relations with the
\* stored state i and dt = t[i+1] - t[i] of the stored times, and the dt
\* adaptive_step returns is the dt its returned state was computed with.
C10_NewmarkConsistent ==
    /\ \A i \in 1..(get_num_states - 1) :
          NewmarkRelations(get_state(i - 1), get_state(i),
                           get_time(i) - get_time(i - 1))
    /\ pc = "ia_accept" => NewmarkRelations(uva0, as.uva1, as.dt)

C10_Witness ==
    /\ pc = "done"
    /\ get_num_states >= 3
    /\ get_time(1) - get_time(0) # get_time(2) - get_time(1)
    /\ get_state(2)[2] # get_state(1)[2]

----------------------------------------------------------------------------
(* Coupling of the solid and the fluid *)

\* the fluid state stored with state i (0-based)
get_fluid_state(i) == h5.qp[i + 1]

\* an explicit increment has returned to integrate or to adaptive_step
ExplicitReturned ==
    /\ inc.kind = "explicit"
    /\ pc \in {"int_accept", "as_control", "ia_accept"}

\* C11: under explicit coupling, in integrate and in integrate_adaptive, the
\* pressure load of the solid solve of step n -> n+1 is the stored fluid
\* state of the last stored state n, which is the fluid model evaluated at
\* that stored solid state; the increment makes exactly one solid solve, and
\* one fluid update after it, evaluated at the new state (u1, v1, a1).
C11_ExplicitLag ==
    ExplicitReturned =>
        /\ inc.load = get_fluid_state(get_num_states - 1)
        /\ inc.load = get_pressure(get_state(get_num_states - 1), fluid_props)
        /\ inc.phases = <<"SOLID_SOLVE", "FLUID_UPDATE">>
        /\ inc.qp1 = get_pressure(inc.uva1, fluid_props)

C11_Witness ==
    /\ pc = "int_accept"
    /\ coupling = "explicit"
    /\ n >= 1
    /\ inc.load # get_fluid_state(0)
    /\ inc.qp1 # inc.load

\* the fixed-point loop of implicit_increment is running or has returned
InImplicit == inc.kind = "implicit" /\ pc \in {"ii_while", "ii_fluid", "int_accept"}

\* abs_err <= abs_tol or abs_err/abs_err0 <= rel_tol
C12_Converged ==
    \/ inc.abs_err <= inc.abs_tol
    \/ (inc.abs_err0 > 0 /\ inc.abs_err <= inc.rel_tol * inc.abs_err0)

\* C12: at the while test of implicit_increment the call returns, with its
\* locals as they are, exactly when abs_err <= abs_tol or rel_err <= rel_tol,
\* and goes on to another solid solve (which may raise) when neither holds,
\* after any number of passes; abs_err is the norm of the residual with the
\* pressure of the updated fluid state, rel_err is abs_err over abs_err0, and
\* abs_err0 is not changed by the passes.
C12_FixedPointExit ==
    /\ [][pc = "ii_while" =>
            IF C12_Converged
            THEN pc' = "int_accept" /\ inc' = inc
            ELSE pc' \in {"ii_fluid", "error"}]_vars
    /\ [][(InImplicit /\ InImplicit') => inc'.abs_err0 = inc.abs_err0]_vars
    /\ []((pc = "ii_while" /\ ~C12_Converged /\ inc.nit < MaxNit) =>
            ENABLED ii_solid_solve)
    /\ []((InImplicit /\ pc # "ii_fluid" /\ inc.nit >= 1) =>
            /\ inc.rel_err = <<inc.abs_err, inc.abs_err0>>
            /\ inc.qp1 = get_pressure(inc.uva1, fluid_props))
    /\ []((inc.kind = "implicit" /\ pc = "int_accept") => C12_Converged)

C12_Witness ==
    /\ pc = "int_accept"
    /\ inc.kind = "implicit"
    /\ inc.nit = 2
    /\ inc.abs_err > inc.abs_tol
    /\ inc.abs_err <= inc.rel_tol * inc.abs_err0

\* s is t or t with entries appended
IsPrefix(s, t) == Len(s) <= Len(t) /\ \A i \in 1..Len(s) : s[i] = t[i]

\* g holds every row of f, at the same index
OnlyAppended(f, g) ==
    /\ IsPrefix(f.time, g.time)
    /\ IsPrefix(f.uva, g.uva)
    /\ IsPrefix(f.qp, g.qp)
    /\ IsPrefix(f.meas, g.meas)

\* C13: the step in which an increment raises writes nothing to the state
\* file and ends the run with that error; a run that has ended with an error
\* takes no further step; rows are written to an initialised state file only
\* by a run without error, they are appended, and a state is appended only
\* after its increment has returned (from implicit_increment: with the
\* convergence test passed).
C13_FailedStepNotStored ==
    /\ [][(pc # "error" /\ pc' = "error") => (h5' = h5 /\ error' # "")]_vars
    /\ [][pc = "error" => UNCHANGED fwd_vars]_vars
    /\ [][(h5.init /\ h5' # h5) =>
            /\ error = "" /\ error' = ""
            /\ OnlyAppended(h5, h5')
            /\ Len(h5'.uva) > Len(h5.uva) =>
                  /\ pc \in {"int_accept", "ia_accept"}
                  /\ inc.raised = ""
                  /\ h5'.uva = Append(h5.uva, inc.uva1)
                  /\ inc.kind = "implicit" => C12_Converged]_vars
    /\ [](inc.raised # "" => (pc = "error" /\ error = inc.raised))

C13_Witness ==
    /\ pc = "error"
    /\ driver = "integrate"
    /\ coupling = "implicit"
    /\ inc.raised = "RuntimeError"
    /\ n = 1
    /\ get_num_states = 2
    /\ Len(tmeas) = 3

----------------------------------------------------------------------------
(* Properties of the adjoint pass *)

\* C14: adjoint() starts with no term in the gradient; on a state file of
\* N >= 2 states the j-th adjoint state it solves for is the one of index
\* N - j, so that the indices N-1, ..., 1 are solved for once each, in
\* decreasing order, and index 0 never; every solve adds one term to the
\* gradient, -(df_n/d emod)^T adj_u_n with the forms set to the residual of
\* the step n-1 -> n and the adjoint state of the same index n; when
\* adjoint() returns the gradient is the sum of these N - 1 terms.
C14_GradientSum ==
    /\ adj.pc = "idle" => (adj.gradient = <<>> /\ adj.solved = <<>>)
    /\ (adj.pc \in {"loop", "done"} /\ adj.num_states >= 2) =>
          LET N == adj.num_states
              m == Len(adj.solved)
          IN  /\ Len(adj.gradient) = m
              /\ \A j \in 1..m :
                    /\ adj.solved[j] = N - j
                    /\ adj.solved[j] >= 1
                    /\ adj.gradient[j] =
                          [x0 |-> N - j - 1, x1 |-> N - j, adj |-> N - j]
              /\ adj.pc = "loop" => adj.ii = N - 1 - m
              /\ adj.pc = "done" => m = N - 1

C14_Witness ==
    /\ adj.pc = "done"
    /\ adj.num_states = 3
    /\ adj.solved = <<2, 1>>

\* the indices adjoint() has asked the state file for, by kind of row
reads_of(kinds) == {rd.i : rd \in {r \in adj.reads : r.kind \in kinds}}

\* C15: a step that changes an initialised state file appends rows and
\* leaves the rows it holds as they are; a step of adjoint() changes neither
\* the state file nor any variable of the forward drivers, and is taken only
\* once the forward run has ended; on a state file of N >= 2 states every
\* index adjoint() asks for is within 0..N-1 for states and functional
\* sensitivities and within 0..N-2 for fluid properties.
C15_AppendOnlyReadInRange ==
    /\ [][h5.init => OnlyAppended(h5, h5')]_vars
    /\ [][adj' # adj =>
            /\ h5' = h5
            /\ UNCHANGED fwd_vars
            /\ pc \in {"done", "error"}]_vars
    /\ [](adj.num_states >= 2 =>
            /\ reads_of({"state", "cost"}) \subseteq 0..(adj.num_states - 1)
            /\ reads_of({"fluid"}) \subseteq 0..(adj.num_states - 2))

C15_Witness ==
    /\ adj.pc = "done"
    /\ adj.num_states = 3
    /\ reads_of({"state"}) = {0, 1, 2}
    /\ reads_of({"fluid"}) = {0, 1}
    /\ reads_of({"cost"}) = {1, 2}

\* C16 as stated: called on a state file with fewer than 2 states, adjoint()
\* ends in an error with no adjoint state solved for and no term in the
\* gradient, and without having asked the state file for an index below 0
\* or beyond its rows.
C16_DetectsShortTrajectory ==
    (adj.pc # "idle" /\ adj.num_states < 2) =>
        /\ adj.pc = "error"
        /\ adj.solved = <<>>
        /\ adj.gradient = <<>>
        /\ reads_of({"state", "cost"}) \subseteq 0..(adj.num_states - 1)
        /\ reads_of({"fluid"}) \subseteq 0..(adj.num_states - 2)

----------------------------------------------------------------------------
(* Properties of the increments *)

\* an increment has returned to its caller
IncrementReturned ==
    inc.kind # "" /\ pc \in {"int_accept", "as_control", "ia_accept"}

\* C18 as stated: an increment over a dt > 0 that starts at rest without
\* flow (zero pressure, zero velocity and acceleration, residual zero)
\* raises nothing, the call it belongs to ends in no error, and the state it
\* returns is the state it started from.
C18_RestStaysAtRest ==
    (AtRest(uva0, fluid_props) /\ inc.kind # "" /\ inc.dt > 0) =>
        /\ inc.raised = ""
        /\ error = ""
        /\ IncrementReturned => inc.uva1 = uva0

\* C19: the solid solves and fluid updates of an increment alternate,
\* starting with a solid solve; in implicit_increment there are nit of each
\* at every while test, a solid solve is followed by its fluid update (or a
\* raise) and by nothing else, the state handed to the fluid update is the
\* Newmark update of the solved u1, and the call returns with nit >= 1 and a
\* fluid state computed; explicit_increment returns after one solid solve
\* and one fluid update.
C19_PhaseOrder ==
    /\ [](\A j \in 1..Len(inc.phases) :
            inc.phases[j] = IF j % 2 = 1 THEN "SOLID_SOLVE" ELSE "FLUID_UPDATE")
    /\ []((inc.kind = "implicit" /\ pc \in {"ii_while", "int_accept"}) =>
            Len(inc.phases) = 2 * inc.nit)
    /\ []((inc.kind = "implicit" /\ pc = "ii_fluid") =>
            /\ Len(inc.phases) = 2 * inc.nit + 1
            /\ NewmarkRelations(uva0, inc.uva1, inc.dt))
    /\ [][pc = "ii_fluid" => pc' \in {"ii_while", "error"}]_vars
    /\ []((inc.kind = "implicit" /\ pc = "int_accept") =>
            /\ inc.nit >= 1
            /\ inc.qp1 = get_pressure(inc.uva1, fluid_props))
    /\ []((inc.kind = "explicit" /\ IncrementReturned) =>
            inc.phases = <<"SOLID_SOLVE", "FLUID_UPDATE">>)

C19_Witness ==
    /\ pc = "int_accept"
    /\ inc.kind = "implicit"
    /\ inc.phases = <<"SOLID_SOLVE", "FLUID_UPDATE", "SOLID_SOLVE", "FLUID_UPDATE">>

\* C20 as stated: with no solver parameters passed, the while test of
\* implicit_increment compares abs_err with 1e-8 and rel_err with 1e-11, so
\* that a call returns only with abs_err <= 1e-8 or rel_err <= 1e-11; the
\* Newton solve is given 1e-8 and 1e-10.
C20_FixedPointTolerances ==
    /\ newton_solver_prm = DEFAULT_NEWTON_SOLVER_PRM
    /\ InImplicit =>
          /\ inc.abs_tol = FIXEDPOINT_SOLVER_PRM.absolute_tolerance
          /\ inc.rel_tol = FIXEDPOINT_SOLVER_PRM.relative_tolerance
    /\ (inc.kind = "implicit" /\ pc = "int_accept") =>
          \/ inc.abs_err <= FIXEDPOINT_SOLVER_PRM.absolute_tolerance
          \/ inc.abs_err <= FIXEDPOINT_SOLVER_PRM.relative_tolerance * inc.abs_err0

----------------------------------------------------------------------------
(* The backward recurrence of the adjoint *)

\* terms has a term c * mat * vec whose matrix is the derivative wrt
HasTerm(terms, c, wrt, vec) ==
    \E j \in 1..Len(terms) :
        /\ terms[j].vec = vec
        /\ terms[j].mat.wrt = wrt
        /\ RatEq(terms[j].c, c)

\* the passes of the loop that have been made: adj.passes[1] is the solve
\* before the loop
LoopPasses == 2..Len(adj.passes)

\* C21: in the pass that solves index n from the adjoint state of n+1, with
\* dt2 = t[n+1] - t[n] and dt1 = t[n] - t[n-1],
\*   adj_a_n = -[(df/da0)^T adj_u_{n+1} + dt2 (gamma/(2 beta) - 1) adj_v_{n+1}
\*               + (1/(2 beta) - 1) adj_a_{n+1}],
\*   adj_v_n = -[(df/dv0)^T adj_u_{n+1} + (gamma/beta - 1) adj_v_{n+1}
\*               + (1/(beta dt2)) adj_a_{n+1}],
\* with df the residual of step n -> n+1, and the right-hand side of the
\* solve for adj_u_n takes the new adj_v_n and adj_a_n with dt1 and the
\* adjoint state of n+1 with dt2.
C21_Recurrence ==
    \A j \in LoopPasses :
        LET d == adj.passes[j]
            nn == d.x1.u.n
            dt1 == get_time(nn) - get_time(nn - 1)
            dt2 == get_time(nn + 1) - get_time(nn)
            a == d.x1.a.terms
            v == d.x1.v.terms
            u == d.x1.u.terms
        IN  /\ d.from = adj.passes[j - 1].x1
            /\ d.from.u.n = nn + 1 /\ d.x1.a.n = nn /\ d.x1.v.n = nn
            /\ Len(a) = 3
            /\ HasTerm(a, Rat(-1, 1), "a0", <<"adj_u", nn + 1>>)
            /\ HasTerm(a, Rat(-dt2 * (BetaInv - 2 * GammaInv), 2 * GammaInv),
                       "I", <<"adj_v", nn + 1>>)
            /\ HasTerm(a, Rat(-(BetaInv - 2), 2), "I", <<"adj_a", nn + 1>>)
            /\ Len(v) = 3
            /\ HasTerm(v, Rat(-1, 1), "v0", <<"adj_u", nn + 1>>)
            /\ HasTerm(v, Rat(-(BetaInv - GammaInv), GammaInv), "I",
                       <<"adj_v", nn + 1>>)
            /\ HasTerm(v, Rat(-BetaInv, dt2), "I", <<"adj_a", nn + 1>>)
            /\ \A m \in 1..3 :
                   /\ a[m].mat.wrt # "I" =>
                          a[m].mat.frm.x0 = nn /\ a[m].mat.frm.x1 = nn + 1
                   /\ v[m].mat.wrt # "I" =>
                          v[m].mat.frm.x0 = nn /\ v[m].mat.frm.x1 = nn + 1
            /\ Len(u) = 6
            /\ HasTerm(u, Rat(1, 1), "I", <<"dcost_du", nn>>)
            /\ HasTerm(u, Rat(BetaInv, GammaInv * dt1), "I", <<"adj_v", nn>>)
            /\ HasTerm(u, Rat(BetaInv, dt1 * dt1), "I", <<"adj_a", nn>>)
            /\ HasTerm(u, Rat(-1, 1), "u0", <<"adj_u", nn + 1>>)
            /\ HasTerm(u, Rat(-BetaInv, GammaInv * dt2), "I",
                       <<"adj_v", nn + 1>>)
            /\ HasTerm(u, Rat(-BetaInv, dt2 * dt2), "I", <<"adj_a", nn + 1>>)

\* a pass has been made between two time steps of different lengths
C21_Witness ==
    \E j \in LoopPasses :
        LET nn == adj.passes[j].x1.u.n
        IN  get_time(nn) - get_time(nn - 1) # get_time(nn + 1) - get_time(nn)

\* C22: in every pass of the backward recurrence, the matrix that multiplies
\* adj_u_{n+1} in the right-hand side of the solve for adj_u_n is the
\* Jacobian of the residual of step n -> n+1 with respect to the earlier
\* displacement plus the pressure term, whose pressure sensitivity is taken
\* at the stored state n and the fluid properties of index n: the state the
\* forward step n -> n+1 took its pressure load from.
C22_PressureCorrected ==
    \A j \in LoopPasses :
        LET d == adj.passes[j]
            nn == d.x1.u.n
            u == d.x1.u.terms
        IN  \A m \in 1..Len(u) :
                u[m].vec = <<"adj_u", nn + 1>> =>
                    /\ u[m].mat.wrt = "u0"
                    /\ u[m].mat.frm = [x0 |-> nn, x1 |-> nn + 1, fp |-> nn]
                    /\ u[m].mat.dp = [x |-> nn, fp |-> nn]
                    /\ get_fluid_state(nn) =
                           get_pressure(get_state(nn), fluid_props)

\* the recurrence has been run down to index 1 and adjoint() has returned
C22_Witness ==
    /\ adj.pc = "done"
    /\ Len(adj.passes) >= 2
    /\ adj.passes[Len(adj.passes)].x1.u.n = 1

\* C23: every adjoint sub-state of the backward pass (adj_u, adj_v, adj_a of
\* the solve before the loop and of every pass of the loop, and the carried
\* tuple) is zero on the degrees of freedom the essential boundary condition
\* fixes.
C23_DirichletOnAdjoint ==
    /\ \A j \in 1..Len(adj.passes) :
           LET x == adj.passes[j].x1
           IN  /\ FixedDofs \subseteq x.u.zero
               /\ FixedDofs \subseteq x.v.zero
               /\ FixedDofs \subseteq x.a.zero
    /\ FixedDofs \subseteq adj.x2.u.zero
    /\ FixedDofs \subseteq adj.x2.v.zero
    /\ FixedDofs \subseteq adj.x2.a.zero

\* a pass of the loop has left adj_v and adj_a zero on the fixed degrees of
\* freedom only
C23_Witness ==
    \E j \in LoopPasses :
        /\ adj.passes[j].x1.a.zero = FixedDofs
        /\ adj.passes[j].x1.v.zero = FixedDofs
        /\ adj.passes[1].x1.v.zero = Dofs

----------------------------------------------------------------------------
(* The stored fluid state *)

\* C24: at every index n of the state file of a forward run, index 0
\* included, under explicit and under implicit coupling, the stored fluid
\* state (q, p) is the fluid model evaluated at the solid state stored at
\* the same index; it is not the fluid state of an earlier index carried
\* over.
C24_FluidStateOfSameIndex ==
    h5.init =>
        /\ Len(h5.qp) = get_num_states
        /\ \A i \in 0..(get_num_states - 1) :
               get_fluid_state(i) = get_pressure(get_state(i), fluid_props)

\* an implicit run has stored a state whose fluid state differs from the
\* one stored before it
C24_Witness ==
    /\ h5.init
    /\ coupling = "implicit"
    /\ get_num_states >= 2
    /\ get_fluid_state(1) # get_fluid_state(0)

\* C25: for every index n the backward pass solves for, the matrix of the
\* solve is assembled from the residual f_n with the inputs of the explicit
\* forward step that computed state n: the stored states n-1 and n, the time
\* step t[n] - t[n-1] of the stored times (the dt of the forward step), and
\* the fluid properties and pressure of index n-1.  The solve before the
\* loop is the one for n = N-1, and a pass that has returned has covered
\* n = N-1, ..., 1.
C25_SameLinearization ==
    /\ \A j \in 1..Len(adj.passes) :
           LET d == adj.passes[j]
               nn == d.x1.u.n
           IN  /\ d.frm = [x0 |-> nn - 1, x1 |-> nn, fp |-> nn - 1]
               /\ d.lhs.wrt = "u1" /\ d.lhs.frm = d.frm /\ d.lhs.dt = d.dt
               /\ d.dt = get_time(nn) - get_time(nn - 1)
               /\ d.dt = tmeas[nn + 1] - tmeas[nn]
               /\ NewmarkRelations(get_state(nn - 1), get_state(nn), d.dt)
               /\ get_fluid_state(nn - 1) =
                      get_pressure(get_state(nn - 1), fluid_props)
               /\ nn = adj.num_states - j
    /\ adj.pc = "done" => Len(adj.passes) = adj.num_states - 1

\* adjoint() has returned after linearizing two steps of different lengths
C25_Witness ==
    /\ adj.pc = "done"
    /\ Len(adj.passes) = 2
    /\ adj.passes[1].dt # adj.passes[2].dt

\* C26: the backward recursion holds the adjoint states of two adjacent
\* indices only: the pass that solves index n starts with the carried tuple
\* (adj_u2, adj_v2, adj_a2) being the adjoint state of index n+1 as the pass
\* before left it, its term of the gradient takes adj_u of index n, and after
\* the pass the carried tuple is the adjoint state of index n.
C26_TwoAdjacentStates ==
    /\ \A j \in LoopPasses :
           LET d == adj.passes[j]
               nn == d.x1.u.n
           IN  /\ d.from = adj.passes[j - 1].x1
               /\ d.from.u.n = nn + 1
               /\ d.from.v.n = nn + 1
               /\ d.from.a.n = nn + 1
               /\ d.x1.v.n = nn /\ d.x1.a.n = nn
               /\ adj.gradient[j].adj = nn
    /\ Len(adj.gradient) = Len(adj.passes)
    /\ Len(adj.passes) >= 1 =>
           /\ adj.x2 = adj.passes[Len(adj.passes)].x1
           /\ adj.held = <<adj.x2.u.n>>

\* a second pass of the loop has started from the tuple the first one left
C26_Witness ==
    /\ Len(adj.passes) = 3
    /\ adj.x2.a.n = 1
    /\ adj.passes[3].from.a.terms # <<>>

----------------------------------------------------------------------------
(* The trials of adaptive_step *)

\* adaptive_step is running: between its call and its return or raise
InAdaptiveStep == pc \in {"as_trial", "as_control"}

C28_StepUpdateDefined ==
    [][(pc = "as_control" /\ AbsTolSet) =>
           /\ error' # "ZeroDivisionError"
           /\ \/ pc' = "ia_accept"
              \/ pc' = "as_trial" /\ as'.dt > 0]_vars

----------------------------------------------------------------------------
(* FSIMap and the fluid functions *)

\* the vectors after the m-th call of a map
AfterOp(m) ==
    IF m = Len(fsi.ops)
    THEN [solid |-> fsi.solid_vec, fluid |-> fsi.fluid_vec]
    ELSE [solid |-> fsi.ops[m + 1].solid, fluid |-> fsi.ops[m + 1].fluid]

\* the pairs (fluid_dofs[i], solid_dofs[i]) of the map
Pairs == 1..Len(fsi.map.dofs_fluid)

\* map_fluid_to_solid: solid_vec[solid_dofs[i]] = fluid_vec[fluid_dofs[i]]
\* for every pair, as jac_fluid_to_solid * fluid_vec has it
FluidToSolidRight(m) ==
    LET op == fsi.ops[m]
        jx == mat_mult(fsi.map.jac_fluid_to_solid, fsi.map.N_SOLID, op.fluid)
    IN  \A i \in Pairs :
            /\ AfterOp(m).solid[fsi.map.dofs_solid[i]] =
                   op.fluid[fsi.map.dofs_fluid[i]]
            /\ AfterOp(m).solid[fsi.map.dofs_solid[i]] =
                   jx[fsi.map.dofs_solid[i]]

\* map_solid_to_fluid: fluid_vec[fluid_dofs[i]] = solid_vec[solid_dofs[i]]
\* for every pair, as jac_solid_to_fluid * solid_vec has it
SolidToFluidRight(m) ==
    LET op == fsi.ops[m]
        jx == mat_mult(fsi.map.jac_solid_to_fluid, fsi.map.N_FLUID, op.solid)
    IN  \A i \in Pairs :
            /\ AfterOp(m).fluid[fsi.map.dofs_fluid[i]] =
                   op.solid[fsi.map.dofs_solid[i]]
            /\ AfterOp(m).fluid[fsi.map.dofs_fluid[i]] =
                   jx[fsi.map.dofs_fluid[i]]

\* C29 as stated: for any paired arrays of distinct dofs, fluid_dofs #
\* solid_dofs included, map_solid_to_fluid sets fluid_vec[fluid_dofs[i]] =
\* solid_vec[solid_dofs[i]] and agrees with jac_solid_to_fluid,
\* map_fluid_to_solid sets solid_vec[solid_dofs[i]] = fluid_vec[fluid_dofs[i]]
\* and agrees with jac_fluid_to_solid, and solid -> fluid -> solid leaves
\* the solid vector as it was on the dofs of the interface.
C29_OneToOne ==
    /\ fsi.error = ""
    /\ \A m \in 1..Len(fsi.ops) :
           /\ fsi.ops[m].name = "map_solid_to_fluid" => SolidToFluidRight(m)
           /\ fsi.ops[m].name = "map_fluid_to_solid" => FluidToSolidRight(m)
           /\ (/\ m < Len(fsi.ops)
               /\ fsi.ops[m].name = "map_solid_to_fluid"
               /\ fsi.ops[m + 1].name = "map_fluid_to_solid") =>
                  \A i \in Pairs :
                      AfterOp(m + 1).solid[fsi.map.dofs_solid[i]] =
                          fsi.ops[m].solid[fsi.map.dofs_solid[i]]

\* both functions have been called on the surface state
BothCalled == fl.calls = {"fluid_pressure", "flow_sensitivity"}

\* C30 as stated: on every surface state, ties for the minimum area and a
\* minimum at the last node included, flow_sensitivity takes the idx_min and
\* idx_sep that fluid_pressure takes, and each function's idx_sep is within
\* 0..num_nodes-1.
C30_SameIndices ==
    /\ BothCalled =>
           /\ fl.sens.idx_min = fl.pressure.idx_min
           /\ fl.sens.idx_sep = fl.pressure.idx_sep
    /\ "fluid_pressure" \in fl.calls =>
           fl.pressure.idx_sep \in 0..(Len(fl.x) - 1)
    /\ "flow_sensitivity" \in fl.calls =>
           fl.sens.idx_sep \in 0..(Len(fl.x) - 1)

====
